---------------------------- MODULE Spec2Model ----------------------------
(***************************************************************************)
(* Chariot: the scenario-file decoder (crates/file_formats/scn/src/scn.rs) *)
(* and the player-colour table reader                                      *)
(* (crates/dat/src/empires/player_color.rs).                               *)
(*                                                                         *)
(* A decode is one call of Scenario::read_from_stream.  It is modelled as  *)
(* a sequential program: pc names the next read of the call, pos is the    *)
(* cursor of the raw stream, bpos the cursor of the decompressed buffer.   *)
(* The bytes of the stream are revealed read by read: every read is handed *)
(* an outcome x, either the value found at the cursor or the end of the    *)
(* stream.  A single-pass reader that never seeks sees every stream that   *)
(* way.                                                                    *)
(*                                                                         *)
(* A u32 is kept as its two 16-bit halves [hi, lo], so that values of      *)
(* 2^31 and more, and the casts `as usize` and `as isize`, keep their      *)
(* meaning.                                                                *)
(***************************************************************************)
EXTENDS Integers, Sequences, FiniteSets

VARIABLES
    usizeBits,     \* pointer width of the build (width of usize and isize)
    pc,            \* next step of Scenario::read_from_stream
    pos,           \* cursor of the raw stream
    bpos,          \* cursor of the decompressed buffer
    reads,         \* the reads made so far, in order
    header,        \* local `header` of ScenarioHeader::read_from_stream
    length,        \* local `length` of the instructions block (a usize)
    scenario,      \* local `scenario` of Scenario::read_from_stream
    player_unit_group_count, \* local of that name (an isize)
    player_index,  \* loop variable `_player_index`
    unit_count,    \* local `unit_count` (a usize)
    units,         \* the records read_array has collected so far
    result,        \* what the call returned
    twin,          \* a second call, on a stream that differs in the header only
    cpc,           \* next step of EmpiresDb::read_player_colors
    cpos,          \* cursor handed to read_player_colors
    color_count,   \* local `color_count` (a u16)
    color_index,   \* number of loop iterations completed
    color,         \* local `color`
    player_colors, \* EmpiresDb::player_colors
    colors_before, \* player_colors when read_player_colors was called
    creads,        \* the reads read_player_colors made, in order
    cresult        \* what read_player_colors returned

scnVars == <<pc, pos, bpos, reads, header, length, scenario,
             player_unit_group_count, player_index, unit_count, units,
             result>>
colorVars == <<cpc, cpos, color_count, color_index, color, player_colors,
               colors_before, creads, cresult>>
vars == <<usizeBits, scnVars, twin, colorVars>>

----------------------------------------------------------------------------
(* Bounds of the model *)

\* group counts 0..MaxGroups are drawn for player_unit_group_count
MaxGroups == 2
\* unit counts 0..MaxUnits are drawn for each unit_count
MaxUnits == 2
\* PlayerResources::read_from_stream returns 0..MaxResources records
MaxResources == 2
\* the decompressed buffer holds at most this many bytes
MaxBodyLen == 26
\* colour counts 0..MaxColors are drawn for color_count
MaxColors == 2
\* the colour stream holds at most this many whole records after the count
MaxColorRecords == 3

----------------------------------------------------------------------------
(* u32 values *)

U32(h, l) == [hi |-> h, lo |-> l]
FromInt(n) == U32(n \div 65536, n % 65536)
\* defined for values below 2^31 only
ToInt(u) == u.hi * 65536 + u.lo
Zero == U32(0, 0)
U32Max == U32(65535, 65535)
TwoTo31 == U32(32768, 0)
U32Gt(a, b) == a.hi > b.hi \/ (a.hi = b.hi /\ a.lo > b.lo)
Succ32(u) == IF u.lo = 65535 THEN U32(u.hi + 1, 0) ELSE U32(u.hi, u.lo + 1)

\* `x as usize` of a u32 x: usize has 32 or 64 bits, the value is kept
AsUsize(u) == u

\* `x as isize` of a u32 x: kept when isize has 64 bits; with 32 bits the
\* same bit pattern is read as two's complement, negative from 2^31 on
AsIsize(u) ==
    IF usizeBits = 32 /\ u.hi >= 32768
    THEN [neg |-> TRUE,
          mag |-> IF u.lo = 0 THEN U32(65536 - u.hi, 0)
                              ELSE U32(65535 - u.hi, 65536 - u.lo)]
    ELSE [neg |-> FALSE, mag |-> u]

\* i < u, for a small natural number i and a usize u
LessThanUsize(i, u) == u.hi > 0 \/ i < u.lo
\* i in 0..c, the range of `for _ in 0..c`, for an isize c
InRange(i, c) == ~c.neg /\ LessThanUsize(i, c.mag)

REASONABLE_INSTRUCTION_LIMIT == FromInt(512 * 1024)
SupportedVersion == "1.11"

DefaultHeader ==
    [version |-> "", length |-> Zero, save_type |-> Zero,
     last_save_time |-> Zero, instructions |-> 0, victory_type |-> Zero,
     player_count |-> Zero]
DefaultScenario ==
    [header |-> DefaultHeader, player_data |-> <<>>, map |-> <<>>,
     player_resources |-> <<>>, player_units |-> <<>>]

\* Result<Scenario>: nothing yet, Ok(scenario) or Err(kind)
Pending == [tag |-> "Pending"]
Ok(v) == [tag |-> "Ok", value |-> v]
Err(k) == [tag |-> "Err", kind |-> k]

\* the state of a call that has not read anything yet
Start ==
    [pc |-> "version", pos |-> 0, bpos |-> 0, reads |-> <<>>,
     header |-> DefaultHeader, length |-> Zero,
     scenario |-> DefaultScenario,
     player_unit_group_count |-> AsIsize(Zero), player_index |-> 0,
     unit_count |-> Zero,
     units |-> <<>>, result |-> Pending]

----------------------------------------------------------------------------
(* The stream, revealed read by read.  An outcome x of a read says whether *)
(* the bytes were there (ok), where the cursor stands afterwards (at), and *)
(* what was decoded: u32 for an integer, str for a string, cnt for a       *)
(* number of records; kind is the error of a failed read.                  *)

Outcome(ok, at, u, str, cnt, kind) ==
    [ok |-> ok, at |-> at, u32 |-> u, str |-> str, cnt |-> cnt, kind |-> kind]
Found(at, u, str, cnt) == Outcome(TRUE, at, u, str, cnt, "")
Failed(at, kind) == Outcome(FALSE, at, Zero, "", 0, kind)

\* read_exact of n bytes at cursor p finds the end of the stream: the bytes
\* that were left are consumed
EndOfStream(p, n) ==
    IF n = 0 THEN {}
    ELSE {Failed(a, "UnexpectedEndOfStream") : a \in {p, p + n - 1}}

\* a sub-record decoder fails: the stream ends, or a field is malformed
SubRecordFails(p) ==
    {Failed(p, "UnexpectedEndOfStream"), Failed(p + 1, "MalformedField")}

Versions == {"1.11", "1.10", "2.00"}
LengthValues == {FromInt(0), FromInt(70000)}
InstructionLengths ==
    {FromInt(0), REASONABLE_INSTRUCTION_LIMIT,
     Succ32(REASONABLE_INSTRUCTION_LIMIT), TwoTo31, U32Max}
PlayerCounts == {FromInt(1), FromInt(3)}
GroupCounts == {FromInt(k) : k \in 0..MaxGroups} \cup {TwoTo31, U32Max}
UnitCounts == {FromInt(k) : k \in 0..MaxUnits} \cup {U32Max}
\* the raw stream holds at most this many bytes
MaxRawLen == ToInt(REASONABLE_INSTRUCTION_LIMIT) + 64
CompressedSizes == {8}
PlayerDataSizes == {1, 3}
MapSizes == {2}

RawU32(s, values) ==
    {Found(s.pos + 4, v, "", 0) : v \in values} \cup EndOfStream(s.pos, 4)
BodyU32(s, values) ==
    {Found(s.bpos + 4, v, "", 0) : v \in
        IF s.bpos + 4 <= MaxBodyLen THEN values ELSE {}}
    \cup EndOfStream(s.bpos, 4)
BodyRecord(s, sizes) ==
    {Found(s.bpos + n, Zero, "", 0) : n \in
        {m \in sizes : s.bpos + m <= MaxBodyLen}}
    \cup SubRecordFails(s.bpos)

\* the outcomes the next read of call s can have
Reveals(s) ==
    CASE s.pc = "version" ->
           {Found(s.pos + 4, Zero, v, 0) : v \in Versions}
           \cup EndOfStream(s.pos, 4)
      [] s.pc = "length" -> RawU32(s, LengthValues)
      [] s.pc = "save_type" -> RawU32(s, {FromInt(2)})
      [] s.pc = "last_save_time" -> RawU32(s, {FromInt(5)})
      [] s.pc = "instructions_length" -> RawU32(s, InstructionLengths)
      [] s.pc = "instructions" ->
           IF s.length.hi < 32768 /\ s.pos + ToInt(s.length) <= MaxRawLen
           THEN {Found(s.pos + ToInt(s.length), Zero, "", ToInt(s.length))}
                \cup EndOfStream(s.pos, ToInt(s.length))
           ELSE EndOfStream(s.pos, 2)
      [] s.pc = "victory_type" -> RawU32(s, {FromInt(0)})
      [] s.pc = "player_count" -> RawU32(s, PlayerCounts)
      [] s.pc = "decompress" ->
           {Found(s.pos + n, Zero, "", 0) : n \in CompressedSizes}
           \cup {Failed(s.pos + n, "DecompressionFailure") :
                    n \in CompressedSizes \cup {0}}
      [] s.pc = "next_unit_id" -> BodyU32(s, {FromInt(0)})
      [] s.pc = "player_data" -> BodyRecord(s, PlayerDataSizes)
      [] s.pc = "map" -> BodyRecord(s, MapSizes)
      [] s.pc = "player_unit_group_count" -> BodyU32(s, GroupCounts)
      [] s.pc = "player_resources" ->
           {Found(s.bpos + k, Zero, "", k) :
              k \in {j \in 0..MaxResources : s.bpos + j <= MaxBodyLen}}
           \cup SubRecordFails(s.bpos)
      [] s.pc = "unit_count" -> BodyU32(s, UnitCounts)
      [] s.pc = "unit" -> BodyRecord(s, {1})
      [] OTHER -> {}

----------------------------------------------------------------------------
(* The steps of the decode, as functions of the call's state s and the     *)
(* outcome x of the read the step makes.                                   *)

\* one entry of the read log: which field, on which stream, the cursor
\* before and after, whether the read succeeded, the u32 it decoded, the
\* error it failed with
Entry(field, stream, from, x) ==
    [field |-> field, stream |-> stream, from |-> from, to |-> x.at,
     ok |-> x.ok, u32 |-> x.u32, kind |-> x.kind]

\* a read on the raw stream / on the decompressed buffer
Raw(s, field, x) ==
    [s EXCEPT !.pos = x.at,
              !.reads = Append(@, Entry(field, "raw", s.pos, x))]
Body(s, field, x) ==
    [s EXCEPT !.bpos = x.at,
              !.reads = Append(@, Entry(field, "body", s.bpos, x))]

\* (mutant) the error is swallowed and what was built so far is returned
ThrowReturnsPartial(s, kind) ==
    [s EXCEPT !.pc = "done", !.result = Ok(s.scenario)]

\* try!: the error is returned at once, the locals are dropped
Throw(s, kind) == [s EXCEPT !.pc = "done", !.result = Err(kind)]

\* Ok(scenario)
Return(s) == [s EXCEPT !.pc = "done", !.result = Ok(s.scenario)]

\* (mutant) every 1.1x version is let through
VersionRecognizedLoosely(version) == version \in {"1.11", "1.10"}

\* header.version != "1.11"
VersionRecognized(version) == version = SupportedVersion

\* (mutant) length >= REASONABLE_INSTRUCTION_LIMIT
InstructionsTooLargeOffByOne(len) ==
    ~U32Gt(REASONABLE_INSTRUCTION_LIMIT, len)

\* length > REASONABLE_INSTRUCTION_LIMIT
InstructionsTooLarge(len) == U32Gt(len, REASONABLE_INSTRUCTION_LIMIT)

StepVersion(s, x) ==
    IF ~x.ok THEN Throw(Raw(s, "version", x), x.kind)
    ELSE LET t == [Raw(s, "version", x) EXCEPT !.header.version = x.str]
         IN  IF VersionRecognized(t.header.version)
             THEN [t EXCEPT !.pc = "length"]
             ELSE Throw(t, "UnrecognizedScenarioVersion")

StepLength(s, x) ==
    IF ~x.ok THEN Throw(Raw(s, "length", x), x.kind)
    ELSE [Raw(s, "length", x) EXCEPT !.header.length = x.u32,
                                     !.pc = "save_type"]

StepSaveType(s, x) ==
    IF ~x.ok THEN Throw(Raw(s, "save_type", x), x.kind)
    ELSE [Raw(s, "save_type", x) EXCEPT !.header.save_type = x.u32,
                                        !.pc = "last_save_time"]

StepLastSaveTime(s, x) ==
    IF ~x.ok THEN Throw(Raw(s, "last_save_time", x), x.kind)
    ELSE [Raw(s, "last_save_time", x) EXCEPT
              !.header.last_save_time = x.u32,
              !.pc = "instructions_length"]

\* (mutant) the payload is read before the length is tested
StepInstructionsLengthUntested(s, x) ==
    IF ~x.ok THEN Throw(Raw(s, "instructions_length", x), x.kind)
    ELSE [Raw(s, "instructions_length", x) EXCEPT
              !.length = AsUsize(x.u32), !.pc = "instructions"]

StepInstructionsLength(s, x) ==
    IF ~x.ok THEN Throw(Raw(s, "instructions_length", x), x.kind)
    ELSE LET t == [Raw(s, "instructions_length", x) EXCEPT
                       !.length = AsUsize(x.u32)]
         IN  IF InstructionsTooLarge(t.length)
             THEN Throw(t, "InstructionsTooLarge")
             ELSE [t EXCEPT !.pc = "instructions"]

\* (mutant) victory_type is not read
StepInstructionsSkipsVictoryType(s, x) ==
    IF ~x.ok THEN Throw(Raw(s, "instructions", x), x.kind)
    ELSE [Raw(s, "instructions", x) EXCEPT !.header.instructions = x.cnt,
                                           !.pc = "player_count"]

StepInstructions(s, x) ==
    IF ~x.ok THEN Throw(Raw(s, "instructions", x), x.kind)
    ELSE [Raw(s, "instructions", x) EXCEPT !.header.instructions = x.cnt,
                                           !.pc = "victory_type"]

StepVictoryType(s, x) ==
    IF ~x.ok THEN Throw(Raw(s, "victory_type", x), x.kind)
    ELSE [Raw(s, "victory_type", x) EXCEPT !.header.victory_type = x.u32,
                                           !.pc = "player_count"]

\* the last read of the header; Ok(header) is stored in scenario.header
StepPlayerCount(s, x) ==
    IF ~x.ok THEN Throw(Raw(s, "player_count", x), x.kind)
    ELSE LET t == [Raw(s, "player_count", x) EXCEPT
                       !.header.player_count = x.u32]
         IN  [t EXCEPT !.scenario.header = t.header, !.pc = "decompress"]

\* stream.read_and_decompress(), then a fresh cursor on the buffer
StepDecompress(s, x) ==
    IF ~x.ok THEN Throw(Raw(s, "decompress", x), x.kind)
    ELSE [Raw(s, "decompress", x) EXCEPT !.bpos = 0, !.pc = "next_unit_id"]

\* (mutant) the map is read before the player data
StepNextUnitIdThenMap(s, x) ==
    IF ~x.ok THEN Throw(Body(s, "next_unit_id", x), x.kind)
    ELSE [Body(s, "next_unit_id", x) EXCEPT !.pc = "map"]

StepNextUnitId(s, x) ==
    IF ~x.ok THEN Throw(Body(s, "next_unit_id", x), x.kind)
    ELSE [Body(s, "next_unit_id", x) EXCEPT !.pc = "player_data"]

StepPlayerData(s, x) ==
    IF ~x.ok THEN Throw(Body(s, "player_data", x), x.kind)
    ELSE [Body(s, "player_data", x) EXCEPT
              !.scenario.player_data = <<s.bpos, x.at>>, !.pc = "map"]

StepMap(s, x) ==
    IF ~x.ok THEN Throw(Body(s, "map", x), x.kind)
    ELSE [Body(s, "map", x) EXCEPT
              !.scenario.map = <<s.bpos, x.at>>,
              !.pc = "player_unit_group_count"]

StepGroupCount(s, x) ==
    IF ~x.ok THEN Throw(Body(s, "player_unit_group_count", x), x.kind)
    ELSE [Body(s, "player_unit_group_count", x) EXCEPT
              !.player_unit_group_count = AsIsize(x.u32),
              !.pc = "player_resources"]

\* (mutant) the loop runs to the header's player_count
LoopBoundFromHeader(s) == AsIsize(s.scenario.header.player_count)

\* for _player_index in 0..player_unit_group_count
LoopBound(s) == s.player_unit_group_count

\* the head of the loop over the unit groups
LoopHead(s) ==
    IF InRange(s.player_index, LoopBound(s))
    THEN [s EXCEPT !.pc = "unit_count"]
    ELSE Return(s)

StepPlayerResources(s, x) ==
    IF ~x.ok THEN Throw(Body(s, "player_resources", x), x.kind)
    ELSE LoopHead([Body(s, "player_resources", x) EXCEPT
             !.scenario.player_resources =
                 [i \in 1..x.cnt |-> <<s.bpos + i - 1, s.bpos + i>>],
             !.player_index = 0])

\* scenario.player_units.push(units), then the next iteration
PushUnits(s) ==
    LoopHead([s EXCEPT !.scenario.player_units = Append(@, s.units),
                       !.units = <<>>,
                       !.player_index = @ + 1])

\* read_array: one more record, or the array is complete
ArrayHead(s) ==
    IF LessThanUsize(Len(s.units), s.unit_count)
    THEN [s EXCEPT !.pc = "unit"]
    ELSE PushUnits(s)

StepUnitCount(s, x) ==
    IF ~x.ok THEN Throw(Body(s, "unit_count", x), x.kind)
    ELSE ArrayHead([Body(s, "unit_count", x) EXCEPT
             !.unit_count = AsUsize(x.u32), !.units = <<>>])

StepUnit(s, x) ==
    IF ~x.ok THEN Throw(Body(s, "unit", x), x.kind)
    ELSE ArrayHead([Body(s, "unit", x) EXCEPT
             !.units = Append(@, <<s.bpos, x.at>>)])

\* the step call s makes next
Step(s, x) ==
    CASE s.pc = "version" -> StepVersion(s, x)
      [] s.pc = "length" -> StepLength(s, x)
      [] s.pc = "save_type" -> StepSaveType(s, x)
      [] s.pc = "last_save_time" -> StepLastSaveTime(s, x)
      [] s.pc = "instructions_length" -> StepInstructionsLength(s, x)
      [] s.pc = "instructions" -> StepInstructions(s, x)
      [] s.pc = "victory_type" -> StepVictoryType(s, x)
      [] s.pc = "player_count" -> StepPlayerCount(s, x)
      [] s.pc = "decompress" -> StepDecompress(s, x)
      [] s.pc = "next_unit_id" -> StepNextUnitId(s, x)
      [] s.pc = "player_data" -> StepPlayerData(s, x)
      [] s.pc = "map" -> StepMap(s, x)
      [] s.pc = "player_unit_group_count" -> StepGroupCount(s, x)
      [] s.pc = "player_resources" -> StepPlayerResources(s, x)
      [] s.pc = "unit_count" -> StepUnitCount(s, x)
      [] s.pc = "unit" -> StepUnit(s, x)

----------------------------------------------------------------------------
(* The accessors of a decoded Scenario *)

\* Scenario::player_ids: (0..self.player_units.len()).map(..).collect()
PlayerIds(scn) == [i \in 1..Len(scn.player_units) |-> i - 1]

\* &self.player_units[*player_id as usize] does not panic
PlayerUnitsInBounds(scn, id) == id < Len(scn.player_units)

\* &self.player_resources[*player_id as usize] does not panic
PlayerResourcesInBounds(scn, id) == id < Len(scn.player_resources)

----------------------------------------------------------------------------
(* The call in progress, and the second call of the pair *)

Cur ==
    [pc |-> pc, pos |-> pos, bpos |-> bpos, reads |-> reads,
     header |-> header, length |-> length, scenario |-> scenario,
     player_unit_group_count |-> player_unit_group_count,
     player_index |-> player_index,
     unit_count |-> unit_count, units |-> units, result |-> result]

Apply(t) ==
    /\ pc' = t.pc
    /\ pos' = t.pos
    /\ bpos' = t.bpos
    /\ reads' = t.reads
    /\ header' = t.header
    /\ length' = t.length
    /\ scenario' = t.scenario
    /\ player_unit_group_count' = t.player_unit_group_count
    /\ player_index' = t.player_index
    /\ unit_count' = t.unit_count
    /\ units' = t.units
    /\ result' = t.result

\* no second call
NoTwin == [Start EXCEPT !.pc = "done"]

\* the header fields in which the second stream may differ from the first
InformationalFields == {"length", "player_count"}

\* what the second call finds where the first found x: the same bytes,
\* except for the values of the informational header fields
TwinOutcomes(x) ==
    IF twin.pc = pc /\ pc \in InformationalFields
    THEN {y \in Reveals(twin) : y.ok = x.ok /\ y.at = x.at}
    ELSE IF twin.pc = pc /\ x \in Reveals(twin)
    THEN {x}
    ELSE Reveals(twin)

TwinFollows(x) ==
    IF twin.pc = "done"
    THEN UNCHANGED twin
    ELSE \E y \in TwinOutcomes(x) : twin' = Step(twin, y)

ColorsIdle ==
    /\ cpc = "idle"
    /\ cpos = 0
    /\ color_count = 0
    /\ color_index = 0
    /\ color = [name |-> "", id |-> 0, palette_index |-> 0]
    /\ player_colors = <<>>
    /\ colors_before = <<>>
    /\ creads = <<>>
    /\ cresult = "Pending"

\* the call's variables hold the state t
Apply0(t) ==
    /\ pc = t.pc
    /\ pos = t.pos
    /\ bpos = t.bpos
    /\ reads = t.reads
    /\ header = t.header
    /\ length = t.length
    /\ scenario = t.scenario
    /\ player_unit_group_count = t.player_unit_group_count
    /\ player_index = t.player_index
    /\ unit_count = t.unit_count
    /\ units = t.units
    /\ result = t.result

ScenarioStarts ==
    /\ usizeBits \in {32, 64}
    /\ Apply0(Start)

Init ==
    /\ ScenarioStarts
    /\ twin = NoTwin
    /\ ColorsIdle

\* two calls, on two streams that differ in the header's length and
\* player_count only
InitPair ==
    /\ ScenarioStarts
    /\ twin = Start
    /\ ColorsIdle

\* header.version = try!(stream.read_sized_str(4)), and the version test
ReadVersion ==
    /\ pc = "version"
    /\ \E x \in Reveals(Cur) :
          /\ Apply(StepVersion(Cur, x))
          /\ TwinFollows(x)
    /\ UNCHANGED <<usizeBits, colorVars>>

\* header.length = try!(stream.read_u32())
ReadLength ==
    /\ pc = "length"
    /\ \E x \in Reveals(Cur) :
          /\ Apply(StepLength(Cur, x))
          /\ TwinFollows(x)
    /\ UNCHANGED <<usizeBits, colorVars>>

\* header.save_type = try!(stream.read_i32())
ReadSaveType ==
    /\ pc = "save_type"
    /\ \E x \in Reveals(Cur) :
          /\ Apply(StepSaveType(Cur, x))
          /\ TwinFollows(x)
    /\ UNCHANGED <<usizeBits, colorVars>>

\* header.last_save_time = try!(stream.read_u32())
ReadLastSaveTime ==
    /\ pc = "last_save_time"
    /\ \E x \in Reveals(Cur) :
          /\ Apply(StepLastSaveTime(Cur, x))
          /\ TwinFollows(x)
    /\ UNCHANGED <<usizeBits, colorVars>>

\* let length = try!(stream.read_u32()) as usize, and the limit test
ReadInstructionsLength ==
    /\ pc = "instructions_length"
    /\ \E x \in Reveals(Cur) :
          /\ Apply(StepInstructionsLength(Cur, x))
          /\ TwinFollows(x)
    /\ UNCHANGED <<usizeBits, colorVars>>

\* try!(stream.read_sized_str(length))
ReadInstructions ==
    /\ pc = "instructions"
    /\ \E x \in Reveals(Cur) :
          /\ Apply(StepInstructions(Cur, x))
          /\ TwinFollows(x)
    /\ UNCHANGED <<usizeBits, colorVars>>

\* header.victory_type = try!(stream.read_u32())
ReadVictoryType ==
    /\ pc = "victory_type"
    /\ \E x \in Reveals(Cur) :
          /\ Apply(StepVictoryType(Cur, x))
          /\ TwinFollows(x)
    /\ UNCHANGED <<usizeBits, colorVars>>

\* header.player_count = try!(stream.read_u32()); Ok(header)
ReadPlayerCount ==
    /\ pc = "player_count"
    /\ \E x \in Reveals(Cur) :
          /\ Apply(StepPlayerCount(Cur, x))
          /\ TwinFollows(x)
    /\ UNCHANGED <<usizeBits, colorVars>>

\* io::Cursor::new(try!(stream.read_and_decompress()))
Decompress ==
    /\ pc = "decompress"
    /\ \E x \in Reveals(Cur) :
          /\ Apply(StepDecompress(Cur, x))
          /\ TwinFollows(x)
    /\ UNCHANGED <<usizeBits, colorVars>>

\* let _next_unit_id = try!(stream.read_u32())
ReadNextUnitId ==
    /\ pc = "next_unit_id"
    /\ \E x \in Reveals(Cur) :
          /\ Apply(StepNextUnitId(Cur, x))
          /\ TwinFollows(x)
    /\ UNCHANGED <<usizeBits, colorVars>>

\* scenario.player_data = try!(PlayerData::read_from_stream(&mut stream))
ReadPlayerData ==
    /\ pc = "player_data"
    /\ \E x \in Reveals(Cur) :
          /\ Apply(StepPlayerData(Cur, x))
          /\ TwinFollows(x)
    /\ UNCHANGED <<usizeBits, colorVars>>

\* scenario.map = try!(Map::read_from_stream(&mut stream))
ReadMap ==
    /\ pc = "map"
    /\ \E x \in Reveals(Cur) :
          /\ Apply(StepMap(Cur, x))
          /\ TwinFollows(x)
    /\ UNCHANGED <<usizeBits, colorVars>>

\* let player_unit_group_count = try!(stream.read_u32()) as isize
ReadGroupCount ==
    /\ pc = "player_unit_group_count"
    /\ \E x \in Reveals(Cur) :
          /\ Apply(StepGroupCount(Cur, x))
          /\ TwinFollows(x)
    /\ UNCHANGED <<usizeBits, colorVars>>

\* scenario.player_resources = try!(PlayerResources::read_from_stream(..))
ReadPlayerResources ==
    /\ pc = "player_resources"
    /\ \E x \in Reveals(Cur) :
          /\ Apply(StepPlayerResources(Cur, x))
          /\ TwinFollows(x)
    /\ UNCHANGED <<usizeBits, colorVars>>

\* let unit_count = try!(stream.read_u32()) as usize
ReadUnitCount ==
    /\ pc = "unit_count"
    /\ \E x \in Reveals(Cur) :
          /\ Apply(StepUnitCount(Cur, x))
          /\ TwinFollows(x)
    /\ UNCHANGED <<usizeBits, colorVars>>

\* one PlayerUnit::read_from_stream of read_array(unit_count, ..)
ReadUnit ==
    /\ pc = "unit"
    /\ \E x \in Reveals(Cur) :
          /\ Apply(StepUnit(Cur, x))
          /\ TwinFollows(x)
    /\ UNCHANGED <<usizeBits, colorVars>>

Next ==
    \/ ReadVersion
    \/ ReadLength
    \/ ReadSaveType
    \/ ReadLastSaveTime
    \/ ReadInstructionsLength
    \/ ReadInstructions
    \/ ReadVictoryType
    \/ ReadPlayerCount
    \/ Decompress
    \/ ReadNextUnitId
    \/ ReadPlayerData
    \/ ReadMap
    \/ ReadGroupCount
    \/ ReadPlayerResources
    \/ ReadUnitCount
    \/ ReadUnit

Spec == Init /\ [][Next]_vars
SpecPair == InitPair /\ [][Next]_vars

----------------------------------------------------------------------------
(* EmpiresDb::read_player_colors *)

U16Max == 65535
ColorCounts == (0..MaxColors) \cup {U16Max}
ColorNames == {"Blue", "Red"}
ColorIds == {1, 2}
PaletteIndexes == {16}
CursorStarts == {0, 100}
OldColor == [name |-> "Old", id |-> 9, palette_index |-> 99]

\* PlayerColor::new(), that is Default::default()
NewColor == [name |-> "", id |-> 0, palette_index |-> 0]

\* bytes of one record: name, id, a skipped u16, palette_index, a skipped byte
ColorRecordSize == 30 + 2 + 2 + 1 + 1

\* where the cursor stood when read_player_colors was called
ColorStart == IF creads = <<>> THEN cpos ELSE creads[1].from
ColorStreamEnd == ColorStart + 2 + ColorRecordSize * MaxColorRecords

\* the outcomes of a read of n bytes at the cursor
ColorReveals(n, strs, nums) ==
    {[ok |-> TRUE, at |-> cpos + n, str |-> s, num |-> v] :
        s \in IF cpos + n <= ColorStreamEnd THEN strs ELSE {}, v \in nums}
    \cup {[ok |-> FALSE, at |-> a, str |-> "", num |-> 0] :
            a \in {cpos, cpos + n - 1}}

ColorEntry(field, x) ==
    [field |-> field, from |-> cpos, to |-> x.at, ok |-> x.ok,
     str |-> x.str, num |-> x.num]

\* a read of the function: the cursor moves, the read is logged
ColorRead(field, x) ==
    /\ cpos' = x.at
    /\ creads' = Append(creads, ColorEntry(field, x))

\* try!: the error is returned at once; self.player_colors is left as it is
ColorThrow ==
    /\ cpc' = "done"
    /\ cresult' = "Err"
    /\ UNCHANGED <<color_count, color_index, color, player_colors>>

\* the head of `for _ in 0..color_count`, after `done` iterations
ColorLoopHead(done, count) ==
    IF done < count
    THEN /\ cpc' = "name"
         /\ color' = NewColor
         /\ cresult' = cresult
    ELSE /\ cpc' = "done"
         /\ color' = color
         /\ cresult' = "Ok"

\* (mutant) the colour is put in front
PushColorInFront(list, c) == <<c>> \o list

\* self.player_colors.push(color)
PushColor(list, c) == Append(list, c)

\* let color_count = try!(cursor.read_u16())
ReadColorCount ==
    /\ cpc = "color_count"
    /\ \E x \in ColorReveals(2, {""}, ColorCounts) :
          /\ ColorRead("color_count", x)
          /\ IF x.ok
             THEN /\ color_count' = x.num
                  /\ ColorLoopHead(0, x.num)
                  /\ UNCHANGED <<color_index, player_colors>>
             ELSE ColorThrow
    /\ UNCHANGED <<usizeBits, scnVars, twin, colors_before>>

\* color.name = try!(cursor.read_sized_str(30))
ReadColorName ==
    /\ cpc = "name"
    /\ \E x \in ColorReveals(30, ColorNames, {0}) :
          /\ ColorRead("name", x)
          /\ IF x.ok
             THEN /\ color' = [color EXCEPT !.name = x.str]
                  /\ cpc' = "id"
                  /\ UNCHANGED <<color_count, color_index, player_colors,
                                 cresult>>
             ELSE ColorThrow
    /\ UNCHANGED <<usizeBits, scnVars, twin, colors_before>>

\* color.id = try!(cursor.read_u16())
ReadColorId ==
    /\ cpc = "id"
    /\ \E x \in ColorReveals(2, {""}, ColorIds) :
          /\ ColorRead("id", x)
          /\ IF x.ok
             THEN /\ color' = [color EXCEPT !.id = x.num]
                  /\ cpc' = "skip_u16"
                  /\ UNCHANGED <<color_count, color_index, player_colors,
                                 cresult>>
             ELSE ColorThrow
    /\ UNCHANGED <<usizeBits, scnVars, twin, colors_before>>

\* try!(cursor.read_u16()); // unknown; skip
SkipColorU16 ==
    /\ cpc = "skip_u16"
    /\ \E x \in ColorReveals(2, {""}, {0}) :
          /\ ColorRead("skip_u16", x)
          /\ IF x.ok
             THEN /\ cpc' = "palette_index"
                  /\ UNCHANGED <<color_count, color_index, color,
                                 player_colors, cresult>>
             ELSE ColorThrow
    /\ UNCHANGED <<usizeBits, scnVars, twin, colors_before>>

\* color.palette_index = try!(cursor.read_byte())
ReadPaletteIndex ==
    /\ cpc = "palette_index"
    /\ \E x \in ColorReveals(1, {""}, PaletteIndexes) :
          /\ ColorRead("palette_index", x)
          /\ IF x.ok
             THEN /\ color' = [color EXCEPT !.palette_index = x.num]
                  /\ cpc' = "skip_byte"
                  /\ UNCHANGED <<color_count, color_index, player_colors,
                                 cresult>>
             ELSE ColorThrow
    /\ UNCHANGED <<usizeBits, scnVars, twin, colors_before>>

\* try!(cursor.read_byte()); self.player_colors.push(color); next iteration
SkipColorByte ==
    /\ cpc = "skip_byte"
    /\ \E x \in ColorReveals(1, {""}, {0}) :
          /\ ColorRead("skip_byte", x)
          /\ IF x.ok
             THEN /\ player_colors' = PushColor(player_colors, color)
                  /\ color_index' = color_index + 1
                  /\ ColorLoopHead(color_index + 1, color_count)
                  /\ UNCHANGED color_count
             ELSE ColorThrow
    /\ UNCHANGED <<usizeBits, scnVars, twin, colors_before>>

InitColors ==
    /\ usizeBits = 64
    /\ Apply0(NoTwin)
    /\ twin = NoTwin
    /\ cpc = "color_count"
    /\ cpos \in CursorStarts
    /\ color_count = 0
    /\ color_index = 0
    /\ color = NewColor
    /\ player_colors \in {<<>>, <<OldColor>>}
    /\ colors_before = player_colors
    /\ creads = <<>>
    /\ cresult = "Pending"

NextColors ==
    \/ ReadColorCount
    \/ ReadColorName
    \/ ReadColorId
    \/ SkipColorU16
    \/ ReadPaletteIndex
    \/ SkipColorByte

SpecColors == InitColors /\ [][NextColors]_vars

----------------------------------------------------------------------------
(* What the decode is claimed to do *)

HeaderOrder ==
    <<"version", "length", "save_type", "last_save_time",
      "instructions_length", "instructions", "victory_type", "player_count">>

\* the reads of one field, in the order they were made
ReadsOf(field) == SelectSeq(reads, LAMBDA e : e.field = field)

\* the call returned Err(kind), and no scenario with it
Rejected(kind) ==
    /\ pc = "done"
    /\ DOMAIN result = {"tag", "kind"}
    /\ result.tag = "Err"
    /\ result.kind = kind

\* a u32 above 524288 = 8 * 65536
Above524288(u) == u.hi > 8 \/ (u.hi = 8 /\ u.lo > 0)

\* C1: when the 4 version bytes are read and are not "1.11", the call fails
\* with the unrecognized-version error, the cursor stands at offset 4 and
\* the version is the only read that was made: no other header field, no
\* decompression, no body section.
UnrecognizedVersionStopsAtOffset4 ==
    (reads # <<>> /\ reads[1].ok /\ header.version # "1.11")
        => /\ Rejected("UnrecognizedScenarioVersion")
           /\ pos = 4
           /\ Len(reads) = 1
           /\ reads[1].field = "version"
           /\ reads[1].from = 0
           /\ bpos = 0
           /\ scenario = DefaultScenario

UnrecognizedVersionSeen ==
    /\ pc = "done"
    /\ Len(reads) = 1
    /\ reads[1].ok
    /\ header.version = "2.00"
    /\ result.tag = "Err"

\* C2: when the declared instructions length is above 524288, the call
\* fails with InstructionsTooLarge, the cursor stands at offset 20, and the
\* five reads up to the length are the only ones made: the payload,
\* victory_type and player_count are never requested.
OversizedInstructionsRejectedBeforeRead ==
    (/\ Len(reads) >= 5
     /\ reads[5].field = "instructions_length"
     /\ reads[5].ok
     /\ Above524288(reads[5].u32))
        => /\ Rejected("InstructionsTooLarge")
           /\ pos = 20
           /\ Len(reads) = 5
           /\ \A i \in 1..5 : reads[i].field = HeaderOrder[i] /\ reads[i].ok
           /\ header.instructions = 0
           /\ header.victory_type = Zero
           /\ header.player_count = Zero

OversizedInstructionsSeen ==
    /\ pc = "done"
    /\ Len(reads) = 5
    /\ reads[5].ok
    /\ reads[5].u32 = U32Max
    /\ result.tag = "Err"

\* C3: the header decoder rejects a declared instructions length L with
\* InstructionsTooLarge exactly when L > 524288: 524288 itself, with its
\* payload present, is read in full; 524289 is rejected.
InstructionLimitIsInclusive ==
    /\ (Len(reads) >= 5 /\ reads[5].ok)
          => (Rejected("InstructionsTooLarge") <=> Above524288(reads[5].u32))
    /\ (Len(reads) >= 5 /\ reads[5].ok /\ reads[5].u32 = FromInt(524289))
          => Rejected("InstructionsTooLarge")
    /\ (Len(reads) >= 6 /\ reads[6].ok /\ reads[5].u32 = FromInt(524288))
          => /\ ~Rejected("InstructionsTooLarge")
             /\ header.instructions = 524288
             /\ reads[6].to = 20 + 524288

LimitSizedInstructionsAccepted ==
    /\ pc = "decompress"
    /\ header.instructions = 524288
    /\ reads[5].u32 = REASONABLE_INSTRUCTION_LIMIT

\* C4: whenever the call succeeds, player_units has as many groups as the
\* player_unit_group_count read from the stream (as a u32), and group i
\* has as many units as the i-th unit count read, in read order.
DecodedShapeMatchesDeclared ==
    result.tag = "Ok" =>
        LET groups == result.value.player_units
            counts == ReadsOf("unit_count")
            records == ReadsOf("unit")
        IN  /\ FromInt(Len(groups)) = ReadsOf("player_unit_group_count")[1].u32
            /\ Len(counts) = Len(groups)
            /\ \A i \in 1..Len(groups) :
                   FromInt(Len(groups[i])) = counts[i].u32
            /\ \A i \in 1..Len(groups) : \A j \in 1..Len(groups[i]) :
                   /\ counts[i].to <= groups[i][j][1]
                   /\ j > 1 => groups[i][j - 1][2] = groups[i][j][1]
                   /\ i < Len(groups) => groups[i][j][2] <= counts[i + 1].from

\* the field that may follow a field in the order of the reads
FollowersOf(field) ==
    CASE field = "version" -> {"length"}
      [] field = "length" -> {"save_type"}
      [] field = "save_type" -> {"last_save_time"}
      [] field = "last_save_time" -> {"instructions_length"}
      [] field = "instructions_length" -> {"instructions"}
      [] field = "instructions" -> {"victory_type"}
      [] field = "victory_type" -> {"player_count"}
      [] field = "player_count" -> {"decompress"}
      [] field = "decompress" -> {"next_unit_id"}
      [] field = "next_unit_id" -> {"player_data"}
      [] field = "player_data" -> {"map"}
      [] field = "map" -> {"player_unit_group_count"}
      [] field = "player_unit_group_count" -> {"player_resources"}
      [] field = "player_resources" -> {"unit_count"}
      [] field = "unit_count" -> {"unit_count", "unit"}
      [] field = "unit" -> {"unit_count", "unit"}

RawFields == {HeaderOrder[i] : i \in 1..8} \cup {"decompress"}

\* C5: the reads are made in one fixed order: the header fields, the
\* decompression, then on the decompressed buffer the reserved u32,
\* player_data, map, player_unit_group_count, player_resources, and per
\* group a unit count followed by exactly that many unit records before
\* the next unit count; every read starts where the previous read on its
\* stream ended (the first at offset 0) and no cursor moves backward.
ReadsInFixedOrder ==
    /\ reads # <<>> => reads[1].field = "version" /\ reads[1].from = 0
    /\ \A i \in 1..Len(reads) :
          /\ reads[i].from <= reads[i].to
          /\ reads[i].stream = (IF reads[i].field \in RawFields
                                THEN "raw" ELSE "body")
          /\ i > 1 => reads[i].field \in FollowersOf(reads[i - 1].field)
          /\ (i > 1 /\ reads[i].stream = reads[i - 1].stream)
                => reads[i].from = reads[i - 1].to
          /\ (i > 1 /\ reads[i].stream # reads[i - 1].stream)
                => reads[i].from = 0
          /\ reads[i].field = "unit_count" =>
                \A j \in (i + 1)..Len(reads) :
                    /\ LessThanUsize(j - i - 1, reads[i].u32)
                          => reads[j].field = "unit"
                    /\ (reads[i].u32.hi = 0 /\ j - i - 1 = reads[i].u32.lo)
                          => reads[j].field = "unit_count"
    /\ LET raw == SelectSeq(reads, LAMBDA e : e.stream = "raw")
           body == SelectSeq(reads, LAMBDA e : e.stream = "body")
       IN  /\ pos = (IF raw = <<>> THEN 0 ELSE raw[Len(raw)].to)
           /\ bpos = (IF body = <<>> THEN 0 ELSE body[Len(body)].to)
    /\ ReadsOf("unit_count") # <<>> =>
          LessThanUsize(Len(ReadsOf("unit_count")) - 1,
                        ReadsOf("player_unit_group_count")[1].u32)

AllSectionsRead ==
    /\ result.tag = "Ok"
    /\ Len(ReadsOf("unit_count")) = 2
    /\ Len(ReadsOf("unit")) = 3
    /\ scenario.player_resources # <<>>

\* C6: the decode is fail-fast.  A read that fails is the last read made:
\* the call is over and has returned exactly that read's error, with no
\* scenario; the two header checks return their error likewise.  A
\* scenario is returned only when every read succeeded and every section
\* was read.
FailFastNoPartialResult ==
    /\ (pc = "done") <=> (result.tag # "Pending")
    /\ \A i \in 1..Len(reads) :
          ~reads[i].ok => /\ i = Len(reads)
                          /\ Rejected(reads[i].kind)
    /\ result.tag = "Err" =>
          /\ DOMAIN result = {"tag", "kind"}
          /\ (\A i \in 1..Len(reads) : reads[i].ok) =>
                result.kind \in {"UnrecognizedScenarioVersion",
                                 "InstructionsTooLarge"}
    /\ result.tag = "Ok" =>
          /\ \A i \in 1..Len(reads) : reads[i].ok
          /\ Len(reads) >= 14
          /\ \A i \in 1..8 : reads[i].field = HeaderOrder[i]
          /\ reads[14].field = "player_resources"
          /\ result.value = scenario
          /\ scenario.header.version = "1.11"
          /\ scenario.player_data # <<>>
          /\ scenario.map # <<>>

TruncatedMidHeader ==
    /\ pc = "done"
    /\ Len(reads) = 3
    /\ ~reads[3].ok
    /\ result.tag = "Err"
    /\ result.kind = "UnexpectedEndOfStream"

\* C7: two calls on streams that differ only in the values of the header's
\* length and player_count end together with the same outcome: both fail
\* with the same error, or both succeed with the same player_data, map,
\* player_resources and player_units.
InformationalFieldsDoNotMatter ==
    (twin # NoTwin /\ pc = "done") =>
        /\ twin.pc = "done"
        /\ twin.result.tag = result.tag
        /\ result.tag = "Err" => twin.result.kind = result.kind
        /\ result.tag = "Ok" =>
              /\ twin.result.value.player_data = result.value.player_data
              /\ twin.result.value.map = result.value.map
              /\ twin.result.value.player_resources
                    = result.value.player_resources
              /\ twin.result.value.player_units = result.value.player_units

PairDiffersAndSucceeds ==
    /\ pc = "done"
    /\ result.tag = "Ok"
    /\ twin.result.tag = "Ok"
    /\ scenario.header.length # twin.scenario.header.length
    /\ scenario.header.player_count = FromInt(1)
    /\ twin.scenario.header.player_count = FromInt(3)
    /\ Len(scenario.player_units) = 2

\* C8: once the header's last field is read, the eight header fields were
\* read in their order from offset 0, each where the previous one ended,
\* the cursor stands at 28 + the declared instructions length, the header
\* holds the values read, and the decompression starts reading there.
HeaderEndsAt28PlusLength ==
    (Len(reads) >= 8 /\ reads[8].ok) =>
        /\ \A i \in 1..8 :
              /\ reads[i].field = HeaderOrder[i]
              /\ reads[i].ok
              /\ reads[i].stream = "raw"
              /\ reads[i].from < reads[i].to \/ (i = 6 /\ reads[5].u32 = Zero)
              /\ reads[i].from = (IF i = 1 THEN 0 ELSE reads[i - 1].to)
        /\ reads[8].to = 28 + ToInt(reads[5].u32)
        /\ Len(reads) = 8 => pc = "decompress" /\ pos = reads[8].to
        /\ Len(reads) >= 9 =>
              /\ reads[9].field = "decompress"
              /\ reads[9].from = 28 + ToInt(reads[5].u32)
        /\ scenario.header =
              [version |-> "1.11", length |-> reads[2].u32,
               save_type |-> reads[3].u32, last_save_time |-> reads[4].u32,
               instructions |-> ToInt(reads[5].u32),
               victory_type |-> reads[7].u32, player_count |-> reads[8].u32]

HeaderReadWithLongInstructions ==
    /\ Len(reads) = 9
    /\ reads[9].from = 28 + 524288
    /\ scenario.header.player_count = FromInt(3)

----------------------------------------------------------------------------
(* What read_player_colors is claimed to do *)

\* the k-th colour record of the stream, as the log shows it
DecodedColor(k) ==
    [name |-> creads[5 * k - 3].str, id |-> creads[5 * k - 2].num,
     palette_index |-> creads[5 * k].num]

\* the number of records every field of which was read
CompleteColors ==
    Len(SelectSeq(creads, LAMBDA e : e.field = "skip_byte" /\ e.ok))

\* C10: player_colors is always the list it was at the call followed by the
\* records fully decoded so far, in read order.  On success these are
\* color_count records and the cursor has advanced by 2 + 36 * color_count.
\* When a read fails, it is the last read, the call returns the error, and
\* the records decoded before the failing one stay appended.
ColorsAppendedInReadOrder ==
    cpc # "idle" =>
        /\ player_colors =
              colors_before \o [k \in 1..CompleteColors |-> DecodedColor(k)]
        /\ (cpc = "done") <=> (cresult # "Pending")
        /\ color_index = CompleteColors
        /\ \A i \in 1..Len(creads) :
              /\ i > 1 => creads[i].from = creads[i - 1].to
              /\ ~creads[i].ok => /\ i = Len(creads)
                                  /\ cresult = "Err"
                                  /\ CompleteColors =
                                        (IF i = 1 THEN 0 ELSE (i - 2) \div 5)
        /\ cresult = "Ok" =>
              /\ \A i \in 1..Len(creads) : creads[i].ok
              /\ CompleteColors = color_count
              /\ Len(creads) = 1 + 5 * color_count
              /\ cpos = ColorStart + 2 + 36 * color_count
        /\ cresult = "Err" => ~creads[Len(creads)].ok

ColorReadFailsInThirdRecord ==
    /\ cresult = "Err"
    /\ colors_before # <<>>
    /\ CompleteColors = 2
    /\ Len(player_colors) = 3
    /\ player_colors[2].name # player_colors[3].name
    /\ creads[Len(creads)].field = "palette_index"

=============================================================================
